---- MODULE Spec2Model ----
(***************************************************************************)
(* State-machine model of readeckbot (src/bot.py): a Telegram bot that     *)
(* stores one Readeck bearer token per Telegram user in a JSON-backed      *)
(* dictionary, registers users through the readeck CLI (falling back to    *)
(* docker) followed by a token exchange, saves bookmarks and serves the    *)
(* markdown of a saved article through dynamically named /md_<id>          *)
(* commands.                                                               *)
(*                                                                         *)
(* Texts (message texts, identifiers, stderr output) are sequences of      *)
(* atoms: single characters, or whole literal phrases of the source.       *)
(* One update is handled at a time (the application is built without       *)
(* concurrent updates), so every handler is one atomic action.             *)
(***************************************************************************)
EXTENDS Integers, Sequences, FiniteSets, TLC

VARIABLES
    READECK_CONFIG,   \* value of the READECK_CONFIG environment variable, or None
    USER_TOKEN_MAP,   \* the in-memory PersistentDict: str(user_id) -> token
    file,             \* content of .user_tokens.json on disk
    pc,               \* "idle" | "pending" (update received) | "handled"
    update,           \* the update being (or last) handled
    backend,          \* how the outside world answers during this update
    calls,            \* subprocess runs and HTTP requests made for this update
    replies,          \* reply_text calls made for this update
    raised,           \* exception that escaped the handler, or "none"
    tasks             \* handler coroutines in flight on the event loop

vars == <<READECK_CONFIG, USER_TOKEN_MAP, file, pc, update, backend, calls,
          replies, raised, tasks>>

----------------------------------------------------------------------------
(* Bounds of the model *)

MaxUsers == 2       \* Telegram user ids 1..MaxUsers
MaxArgs == 3        \* most command arguments in one update
MaxIdLen == 2       \* longest Bookmark-Id header value
MaxChunks == 2      \* articles are up to MaxChunks full chunks plus a rest
MaxWords == 3       \* most blank-separated words in a text given to the parser

None == "None"      \* Python's None
Missing == <<None>>  \* None where a text is expected

UserIds == 1 .. MaxUsers
Tokens == { "tokA", "tokB" }

\* str(user_id)
Str(user_id) == ToString(user_id)

Min(a, b) == IF a < b THEN a ELSE b

----------------------------------------------------------------------------
(* Texts *)

Whitespace == { " ", "\n" }

RECURSIVE LStrip(_)
LStrip(s) ==
    IF s # <<>> /\ Head(s) \in Whitespace THEN LStrip(Tail(s)) ELSE s

RECURSIVE RStrip(_)
RStrip(s) ==
    IF s # <<>> /\ s[Len(s)] \in Whitespace
    THEN RStrip(SubSeq(s, 1, Len(s) - 1))
    ELSE s

\* str.strip()
Strip(s) == LStrip(RStrip(s))

\* str.startswith(prefix)
StartsWith(s, prefix) ==
    /\ Len(s) >= Len(prefix)
    /\ SubSeq(s, 1, Len(prefix)) = prefix

\* needle in haystack
Contains(haystack, needle) ==
    \E i \in 0 .. (Len(haystack) - Len(needle)) :
        SubSeq(haystack, i + 1, i + Len(needle)) = needle

\* all sequences over S of length lo..hi
SeqsOf(S, lo, hi) == UNION { [1 .. n -> S] : n \in lo .. hi }

----------------------------------------------------------------------------
(* PersistentDict, src/bot.py:44-68 *)

EmptyDict == [k \in {} |-> None]

\* dict.get(key)
DictGet(d, key) == IF key \in DOMAIN d THEN d[key] ELSE None

\* dict.__setitem__(key, value)
DictSet(d, key, value) ==
    [k \in DOMAIN d \cup {key} |-> IF k = key THEN value ELSE d[k]]

\* The file is absent, or holds text that is not JSON, or a JSON document.
FileAbsent == [kind |-> "absent", members |-> {}]
FileGarbage == [kind |-> "garbage", members |-> {}]
FileArray == [kind |-> "array", members |-> {}]
\* a JSON object cut short: an entry can still be read in the text
FileTruncated == [kind |-> "garbage", members |-> { <<"1", "tokA">> }]

\* json.dumps(self): a JSON object, one name/value member per key
JsonDumps(d) ==
    [kind |-> "object", members |-> { <<k, d[k]>> : k \in DOMAIN d }]

\* (mutant: whatever entries the text shows are taken)
Load_Salvage(f) ==
    [k \in { m[1] : m \in f.members } |->
        (CHOOSE m \in f.members : m[1] = k)[2]]

\* json.loads + isinstance(data, dict) + self.update(data), with the
\* except clause: anything that is not a JSON object leaves the dict empty
Load(f) ==
    IF f.kind = "object"
    THEN [k \in { m[1] : m \in f.members } |->
             (CHOOSE m \in f.members : m[1] = k)[2]]
    ELSE EmptyDict

\* Outcomes of Path.write_text: the text is written; open() fails and the
\* file keeps its content; open() truncates and the write fails.
DiskOutcomes == { "ok", "open_failed", "write_failed" }

\* PersistentDict._save
Save(d, f, disk) ==
    CASE disk = "ok" -> JsonDumps(d)
      [] disk = "write_failed" -> FileGarbage
      [] OTHER -> f

\* PersistentDict.__setitem__: super().__setitem__ then self._save()
SetItemMap(d, key, value) == DictSet(d, key, value)
\* (mutant: the snapshot is written before the dictionary is updated)
SetItemFile_SaveFirst(d, f, key, value, disk) == Save(d, f, disk)
SetItemFile(d, f, key, value, disk) == Save(DictSet(d, key, value), f, disk)
\* (mutant: a failure of the save is swallowed)
SetItemRaised_Swallowed(disk) == "none"
\* the exception __setitem__ lets through: _save has no try block
SetItemRaised(disk) == IF disk = "ok" THEN "none" ELSE "OSError"

----------------------------------------------------------------------------
(* Updates and the outside world *)

NoUpdate == [user_id |-> 0, command |-> "", args |-> <<>>, text |-> <<>>]

\* An HTTP exchange: not made ("-"), failed in transport ("error": requests
\* raises a RequestException), or answered with a status, headers and a body.
HttpUnused ==
    [kind |-> "-", status |-> 0, json |-> FALSE, token |-> None,
     bookmark_id |-> Missing, title |-> Missing, href |-> Missing,
     text |-> <<>>]
HttpError == [HttpUnused EXCEPT !.kind = "error"]
HttpResponse(status) ==
    [HttpUnused EXCEPT !.kind = "response", !.status = status]

\* Everything the handlers do not ask about stays unused.
NoBackend ==
    [readeck |-> "-", docker |-> "-", auth |-> HttpUnused, disk |-> "-",
     submit |-> HttpUnused, details |-> HttpUnused, article |-> HttpUnused]

CommandUpdate(u, command, args) ==
    [user_id |-> u, command |-> command, args |-> args, text |-> <<>>]

----------------------------------------------------------------------------
(* Messages *)

StartText == <<"Hi! Send me a URL to save it on Readeck. ...">>
HelpText == <<"Send me a URL along with an optional title and +labels. ...">>
TokenUsage == <<"Usage: /token <YOUR_READECK_TOKEN>">>
TokenSaved == <<"Your Readeck token has been saved.">>

Reply(text) == [text |-> text, parse_mode |-> None]
ReplyMarkdown(text) == [text |-> text, parse_mode |-> "MARKDOWN"]

\* No coroutine is in flight: `running` is the coroutine the event loop is
\* executing (0 between coroutines); per user, the position of the
\* coroutine handling that user's update, the token it writes, the text
\* json.dumps gave it, and how its last write ended.
NoTasks ==
    [running |-> 0,
     pc |-> [t \in UserIds |-> "idle"],
     token |-> [t \in UserIds |-> None],
     text |-> [t \in UserIds |-> FileAbsent],
     done |-> [t \in UserIds |-> "none"]]

----------------------------------------------------------------------------
(* Initial state: the module-level code, src/bot.py:70-78 *)

ConfigValues == { None, "cfg" }

Init ==
    /\ READECK_CONFIG \in ConfigValues
    /\ file \in { FileAbsent, FileTruncated, FileArray }
    /\ USER_TOKEN_MAP = Load(file)
    /\ pc = "idle"
    /\ update = NoUpdate
    /\ backend = NoBackend
    /\ calls = <<>>
    /\ replies = <<>>
    /\ raised = "none"
    /\ tasks = NoTasks

----------------------------------------------------------------------------
(* The transport *)

TokenUpdates ==
    { CommandUpdate(u, "token", args) :
        u \in UserIds, args \in SeqsOf(Tokens, 0, 2) }

\* /register arguments: a user's id written out, or some other word
RegisterWords == { Str(1), "pw" }

RegisterUpdates ==
    { CommandUpdate(u, "register", args) :
        u \in UserIds, args \in SeqsOf(RegisterWords, 0, MaxArgs) }

\* free text: no URL; a scheme without a URL; a URL alone; a URL with a
\* title and labels
MessageTexts ==
    { <<"a", " ", "b">>,
      <<"a", " ", "http", "://">>,
      <<"http", "://", "x">>,
      <<"http", "s", "://", "x", " ", "a", " ", "+", "b", " ", "+", "a">> }

MessageUpdates ==
    { [user_id |-> u, command |-> "message", args |-> <<>>, text |-> t] :
        u \in UserIds, t \in MessageTexts }

\* Bookmark-Id header values: a field value has no outer whitespace
IdChars == { "4", "2", " " }
BookmarkIds ==
    { b \in SeqsOf(IdChars, 1, MaxIdLen) :
        b[1] \notin Whitespace /\ b[Len(b)] \notin Whitespace }

\* commands no CommandHandler takes: /md_<id> as shown to the user, /md_
\* alone, /md_<id> followed by a blank, and another command
OtherCommandTexts ==
    { <<"/", "m", "d", "_">> \o b : b \in BookmarkIds \cup { <<>> } }
      \cup { <<"/", "m", "d", "_", "4", "2", " ">>, <<"/", "m", "d">> }

OtherCommandUpdates ==
    { [user_id |-> u, command |-> "other", args |-> <<>>, text |-> t] :
        u \in UserIds, t \in OtherCommandTexts }

Updates ==
    { CommandUpdate(u, c, <<>>) : u \in UserIds, c \in {"start", "help"} }
      \cup TokenUpdates
      \cup RegisterUpdates
      \cup MessageUpdates
      \cup OtherCommandUpdates

\* run_polling hands the next update, one of `updates`, to the first
\* matching handler
ReceiveFrom(updates) ==
    /\ pc = "idle"
    /\ \E upd \in updates : update' = upd
    /\ pc' = "pending"
    /\ UNCHANGED <<tasks, READECK_CONFIG, USER_TOKEN_MAP, file, backend, calls,
                   replies, raised>>

Receive == ReceiveFrom(Updates)

\* the handler has returned (or raised) and the application polls again
Finish ==
    /\ pc = "handled"
    /\ pc' = "idle"
    /\ update' = NoUpdate
    /\ backend' = NoBackend
    /\ calls' = <<>>
    /\ replies' = <<>>
    /\ raised' = "none"
    /\ UNCHANGED <<tasks, READECK_CONFIG, USER_TOKEN_MAP, file>>

\* the process is stopped and started again: the module-level code reruns
Restart ==
    /\ pc \in {"idle", "handled"}
    /\ READECK_CONFIG' \in ConfigValues
    /\ USER_TOKEN_MAP' = Load(file)
    /\ pc' = "idle"
    /\ update' = NoUpdate
    /\ backend' = NoBackend
    /\ calls' = <<>>
    /\ replies' = <<>>
    /\ raised' = "none"
    /\ UNCHANGED <<tasks, file>>

----------------------------------------------------------------------------
(* Handlers *)

\* start, src/bot.py:80-93
Start ==
    /\ pc = "pending" /\ update.command = "start"
    /\ replies' = <<Reply(StartText)>>
    /\ pc' = "handled"
    /\ UNCHANGED <<tasks, READECK_CONFIG, USER_TOKEN_MAP, file, update, backend,
                   calls, raised>>

\* help_command, src/bot.py:95-107
Help ==
    /\ pc = "pending" /\ update.command = "help"
    /\ replies' = <<Reply(HelpText)>>
    /\ pc' = "handled"
    /\ UNCHANGED <<tasks, READECK_CONFIG, USER_TOKEN_MAP, file, update, backend,
                   calls, raised>>

\* token_command, src/bot.py:172-184
TokenCommand ==
    /\ pc = "pending" /\ update.command = "token"
    /\ pc' = "handled"
    /\ IF update.args = <<>> \/ Len(update.args) # 1
       THEN /\ replies' = <<Reply(TokenUsage)>>
            /\ UNCHANGED <<USER_TOKEN_MAP, file, backend, raised>>
       ELSE \E disk \in DiskOutcomes :
            LET key == Str(update.user_id)
                token == update.args[1]
            IN /\ backend' = [NoBackend EXCEPT !.disk = disk]
               /\ USER_TOKEN_MAP' = SetItemMap(USER_TOKEN_MAP, key, token)
               /\ file' = SetItemFile(USER_TOKEN_MAP, file, key, token, disk)
               /\ raised' = SetItemRaised(disk)
               /\ replies' = IF SetItemRaised(disk) = "none"
                             THEN <<Reply(TokenSaved)>> ELSE <<>>
    /\ UNCHANGED <<tasks, READECK_CONFIG, update, calls>>

----------------------------------------------------------------------------
(* Calls to the outside world, as the handlers make them *)

NoBody ==
    [application |-> None, username |-> None, password |-> None,
     url |-> Missing, title |-> Missing, labels |-> <<>>]

\* subprocess.run(command, capture_output=True, text=True)
ReadeckStderr == <<"readeck: cannot add user", "\n">>
DockerStderr == <<"docker: cannot add user", "\n">>

\* What running `command` gives: the executable is command[0]. Only readeck
\* and docker may be installed; a missing executable makes subprocess.run
\* raise FileNotFoundError.
RunOutcome(command, be) ==
    CASE command[1] = "readeck" -> be.readeck
      [] command[1] = "docker" -> be.docker
      [] OTHER -> "missing"

RunResult(command, be) ==
    [HttpUnused EXCEPT
        !.kind = RunOutcome(command, be),
        !.status = IF RunOutcome(command, be) = "exit0" THEN 0 ELSE 1,
        !.text = CASE RunOutcome(command, be) # "exit1" -> <<>>
                   [] command[1] = "docker" -> DockerStderr
                   [] OTHER -> ReadeckStderr]

RunCall(command, be) ==
    [op |-> "run", target |-> command, body |-> NoBody,
     result |-> RunResult(command, be)]

HttpCall(method, path, body, result) ==
    [op |-> method, target |-> path, body |-> body, result |-> result]

----------------------------------------------------------------------------
(* register_command and register_and_fetch_token, src/bot.py:151-226 *)

RegisterUsage ==
    <<"Usage: /register <user> <password>\nUsage: /register <password> (your Telegram user ID will be used as username).">>
RegistrationFailed == <<"Registration failed: ">>
RegistrationSuccessful == <<"Registration successful! Your token has been saved.">>
TokenMissing == <<"Registration succeeded but failed to retrieve token.">>
TryLater == <<"Having troubles now... try later.">>

\* (mutant: a single argument is taken as username and password)
RegisterArgs_OneForBoth(user_id, args) ==
    CASE args = <<>> ->
            [usage |-> FALSE, username |-> Str(user_id), password |-> Str(user_id)]
      [] Len(args) = 1 ->
            [usage |-> FALSE, username |-> args[1], password |-> args[1]]
      [] Len(args) = 2 ->
            [usage |-> FALSE, username |-> args[1], password |-> args[2]]
      [] OTHER ->
            [usage |-> TRUE, username |-> None, password |-> None]

\* register_command: the credentials the argument list stands for
RegisterArgs(user_id, args) ==
    CASE args = <<>> ->
            [usage |-> FALSE, username |-> Str(user_id), password |-> Str(user_id)]
      [] Len(args) = 1 ->
            [usage |-> FALSE, username |-> Str(user_id), password |-> args[1]]
      [] Len(args) = 2 ->
            [usage |-> FALSE, username |-> args[1], password |-> args[2]]
      [] OTHER ->
            [usage |-> TRUE, username |-> None, password |-> None]

\* line 193: the conditional expression binds weaker than +, so the command
\* is ["readeck", "user", "-config", READECK_CONFIG] when a configuration
\* path is set and [] + ["-u", username, "-p", password] when none is
LocalCommand(config, username, password) ==
    IF config # None
    THEN <<"readeck", "user">> \o <<"-config", config>>
    ELSE <<>> \o <<"-u", username, "-p", password>>

\* lines 198-201
DockerCommand(username, password) ==
    <<"docker", "run", "codeberg.org/readeck/readeck:latest",
      "readeck", "user", "-u", username, "-p", password>>

AuthPath == <<"/api/auth">>

AuthPayload(username, password) ==
    [NoBody EXCEPT !.application = "telegram bot",
                   !.username = username, !.password = password]

\* line 214
AuthOk(status) == 200 <= status /\ status < 300

\* (mutant: only a missing token counts as no token)
Truthy_NotNone(token) == token # None

\* Python truth value of data.get("token")
Truthy(token) == token # None /\ token # ""

\* (mutant: the token is stored under the registered username)
StoreKey_Username(user_id, username) == username

\* line 218: the key the token is stored under
StoreKey(user_id, username) == Str(user_id)

\* The end of a handler: what it called, what it replied, the exception
\* that escaped it, and the store it leaves.
Outcome(c, r, exc, map, f) ==
    [calls |-> c, replies |-> r, raised |-> exc, map |-> map, file |-> f]

\* lines 208-226: the token exchange
FetchToken(user_id, username, password, be, map, f, before) ==
    LET r == be.auth
        c == before \o
             <<HttpCall("POST", AuthPath, AuthPayload(username, password), r)>>
    IN CASE r.kind = "error" ->
                Outcome(c, <<>>, "RequestException", map, f)
         [] ~AuthOk(r.status) ->
                Outcome(c, <<Reply(TryLater)>>, "none", map, f)
         [] ~r.json ->
                Outcome(c, <<>>, "JSONDecodeError", map, f)
         [] ~Truthy(r.token) ->
                Outcome(c, <<Reply(TokenMissing)>>, "none", map, f)
         [] OTHER ->
                Outcome(c,
                        IF SetItemRaised(be.disk) = "none"
                        THEN <<Reply(RegistrationSuccessful)>> ELSE <<>>,
                        SetItemRaised(be.disk),
                        SetItemMap(map, StoreKey(user_id, username), r.token),
                        SetItemFile(map, f, StoreKey(user_id, username),
                                    r.token, be.disk))

\* register_and_fetch_token
RegisterAndFetchToken(user_id, username, password, config, be, map, f) ==
    LET command == LocalCommand(config, username, password)
        local == RunCall(command, be)
        docker_command == DockerCommand(username, password)
        docker == RunCall(docker_command, be)
    IN CASE local.result.kind = "missing" ->
                Outcome(<<local>>, <<>>, "FileNotFoundError", map, f)
         [] local.result.status = 0 ->
                FetchToken(user_id, username, password, be, map, f, <<local>>)
         [] docker.result.kind = "missing" ->
                Outcome(<<local, docker>>, <<>>, "FileNotFoundError", map, f)
         [] docker.result.status # 0 ->
                Outcome(<<local, docker>>,
                        <<Reply(RegistrationFailed \o Strip(docker.result.text))>>,
                        "none", map, f)
         [] OTHER ->
                FetchToken(user_id, username, password, be, map, f,
                           <<local, docker>>)

ProcOutcomes == { "exit0", "exit1", "missing" }
AuthStatuses == { 199, 200, 299, 300 }

\* Answers of POST /api/auth, each with the outcome of the write it leads
\* to ("-" when nothing is written): a transport failure; a status outside
\* 2xx; a 2xx body that is not JSON; a 2xx JSON object without token, with
\* an empty token, or with a token.
AuthAnswers ==
    { <<HttpError, "-">> }
      \cup { <<HttpResponse(st), "-">> : st \in AuthStatuses }
      \cup { <<[HttpResponse(st) EXCEPT !.json = TRUE, !.token = t], "-">> :
               st \in { x \in AuthStatuses : AuthOk(x) }, t \in {None, ""} }
      \cup { <<[HttpResponse(st) EXCEPT !.json = TRUE, !.token = t], d>> :
               st \in { x \in AuthStatuses : AuthOk(x) }, t \in Tokens,
               d \in DiskOutcomes }

\* How the two executables answer: the container matters only when the
\* local run did not exit with 0.
ProvisionAnswers(command) ==
    { <<r, d>> \in
        (IF command[1] = "readeck" THEN ProcOutcomes ELSE {"-"})
          \X (ProcOutcomes \cup {"-"}) :
        (d = "-") = (r = "exit0") }

\* whether the flow gets to the token exchange
Provisioned(p) == p[1] = "exit0" \/ (p[1] = "exit1" /\ p[2] = "exit0")

RegisterBackends(command) ==
    { [NoBackend EXCEPT !.readeck = p[1], !.docker = p[2],
                        !.auth = a[1], !.disk = a[2]] :
        p \in { q \in ProvisionAnswers(command) : Provisioned(q) },
        a \in AuthAnswers }
      \cup { [NoBackend EXCEPT !.readeck = p[1], !.docker = p[2]] :
               p \in { q \in ProvisionAnswers(command) : ~Provisioned(q) } }

RegisterCommand ==
    /\ pc = "pending" /\ update.command = "register"
    /\ pc' = "handled"
    /\ LET reg == RegisterArgs(update.user_id, update.args)
       IN IF reg.usage
          THEN /\ replies' = <<Reply(RegisterUsage)>>
               /\ UNCHANGED <<USER_TOKEN_MAP, file, backend, calls, raised>>
          ELSE \E be \in RegisterBackends(
                           LocalCommand(READECK_CONFIG, reg.username,
                                        reg.password)) :
               LET out == RegisterAndFetchToken(update.user_id, reg.username,
                              reg.password, READECK_CONFIG, be,
                              USER_TOKEN_MAP, file)
               IN /\ backend' = be
                  /\ calls' = out.calls
                  /\ replies' = out.replies
                  /\ raised' = out.raised
                  /\ USER_TOKEN_MAP' = out.map
                  /\ file' = out.file
    /\ UNCHANGED <<tasks, READECK_CONFIG, update>>

----------------------------------------------------------------------------
(* extract_url_title_labels, src/bot.py:109-121 *)

\* \w of the regular expressions; "http" stands for its four letters
WordChars == { "http", "s", "a", "b", "x", "4", "2", "_" }

\* [^\s]+ : the end of the run of non-whitespace that starts at i
RECURSIVE RunEnd(_, _)
RunEnd(s, i) ==
    IF i < Len(s) /\ s[i + 1] \notin Whitespace THEN RunEnd(s, i + 1) ELSE i

\* \w+ : the end of the run of word characters that starts at i
RECURSIVE WordEnd(_, _)
WordEnd(s, i) ==
    IF i < Len(s) /\ s[i + 1] \in WordChars THEN WordEnd(s, i + 1) ELSE i

\* https?:// at i: the index of its last atom, or 0
SchemeEnd(s, i) ==
    CASE i + 1 <= Len(s) /\ s[i] = "http" /\ s[i + 1] = "://" -> i + 1
      [] i + 2 <= Len(s) /\ s[i] = "http" /\ s[i + 1] = "s"
            /\ s[i + 2] = "://" -> i + 2
      [] OTHER -> 0

\* re.search(r'https?://', text)
HasScheme(s) == \E i \in 1 .. Len(s) : SchemeEnd(s, i) # 0

\* (https?://[^\s]+) matches at i
UrlAt(s, i) ==
    /\ SchemeEnd(s, i) # 0
    /\ SchemeEnd(s, i) < Len(s)
    /\ s[SchemeEnd(s, i) + 1] \notin Whitespace

\* re.search(url_pattern, text).group(0), or Missing without a match
SearchUrl(s) ==
    IF \E i \in 1 .. Len(s) : UrlAt(s, i)
    THEN LET i == CHOOSE k \in 1 .. Len(s) :
                     UrlAt(s, k) /\ \A j \in 1 .. (k - 1) : ~UrlAt(s, j)
         IN SubSeq(s, i, RunEnd(s, SchemeEnd(s, i) + 1))
    ELSE Missing

\* str.replace(old, ""): every occurrence of old, left to right
RECURSIVE Remove(_, _)
Remove(s, old) ==
    CASE s = <<>> -> <<>>
      [] old # <<>> /\ StartsWith(s, old) ->
            Remove(SubSeq(s, Len(old) + 1, Len(s)), old)
      [] OTHER -> <<Head(s)>> \o Remove(Tail(s), old)

\* re.findall(r'\+(\w+)', s), scanning from index i
RECURSIVE FindLabels(_, _)
FindLabels(s, i) ==
    CASE i > Len(s) -> <<>>
      [] s[i] = "+" /\ i < Len(s) /\ s[i + 1] \in WordChars ->
            <<SubSeq(s, i + 1, WordEnd(s, i + 1))>>
              \o FindLabels(s, WordEnd(s, i + 1) + 1)
      [] OTHER -> FindLabels(s, i + 1)

\* for lbl in labels: after_url = after_url.replace(f"+{lbl}", "")
RECURSIVE RemoveLabels(_, _)
RemoveLabels(s, labels) ==
    IF labels = <<>> THEN s
    ELSE RemoveLabels(Remove(s, <<"+">> \o Head(labels)), Tail(labels))

ExtractUrlTitleLabels(text) ==
    LET url == SearchUrl(text)
    IN IF url = Missing
       THEN [url |-> Missing, title |-> Missing, labels |-> <<>>]
       ELSE LET after_url == Strip(Remove(text, url))
                labels == FindLabels(after_url, 1)
                title == Strip(RemoveLabels(after_url, labels))
            IN [url |-> url,
                title |-> IF title # <<>> THEN title ELSE Missing,
                labels |-> labels]

----------------------------------------------------------------------------
(* handle_message and save_bookmark, src/bot.py:123-149, 228-282 *)

NoToken ==
    <<"I don't have your Readeck token. Set it with /token <YOUR_TOKEN> or /register <password>.">>
NoValidUrl == <<"I couldn't find a valid URL.">>
UnknownInput ==
    <<"I don't recognize this input.\nAfter saving a bookmark, use the provided /md_<bookmark_id> command to view its markdown.">>
SavedNoDetails == <<"Saved bookmark but failed to retrieve details.">>
SavedNoId == <<"Saved bookmark but missing Bookmark-Id header.">>
SaveFailed == <<"Failed to save bookmark.">>

BookmarksPath == <<"/api/bookmarks">>
\* f"{READECK_BASE_URL}/api/bookmarks/{bookmark_id}"
BookmarkPath(bookmark_id) == <<"/api/bookmarks/">> \o bookmark_id

\* f"/md_{bookmark_id}"
MdCommand(bookmark_id) == <<"/", "m", "d", "_">> \o bookmark_id

\* the grave accent that opens and closes inline code in Markdown
Backtick == "<grave accent>"

\* lines 262-265 and 268-271
SavedMessage(real_title, href, bookmark_id) ==
    IF href # <<>>
    THEN ReplyMarkdown(<<"Saved: [">> \o real_title \o <<"](">> \o href
                         \o <<")\n\n", "Use ", Backtick>>
                         \o MdCommand(bookmark_id)
                         \o <<Backtick, " to view the article's markdown.">>)
    ELSE Reply(<<"Saved: ">> \o real_title \o <<"\n\n", "Use ", Backtick>>
                 \o MdCommand(bookmark_id)
                 \o <<Backtick, " to view the article's markdown.">>)

\* lines 230-234: title and labels are left out when they are empty
BookmarkData(url, title, labels) ==
    [NoBody EXCEPT !.url = url,
                   !.title = IF title # Missing /\ title # <<>>
                             THEN title ELSE Missing,
                   !.labels = labels]

\* (mutant: any 2xx status counts as accepted)
SubmitAccepted_Any2xx(status) == status \in 200 .. 299

\* line 248
SubmitAccepted(status) == status = 202
\* line 257
DetailsOk(status) == status = 200

NoTitle == <<"No Title">>

\* save_bookmark; the store is not touched
SaveBookmark(url, title, labels, be) ==
    LET r == be.submit
        submit == HttpCall("POST", BookmarksPath,
                           BookmarkData(url, title, labels), r)
        bookmark_id == r.bookmark_id
        details == be.details
        lookup == HttpCall("GET", BookmarkPath(bookmark_id), NoBody, details)
        real_title ==
            IF details.title # Missing THEN details.title ELSE NoTitle
        href == IF details.href # Missing THEN details.href ELSE <<>>
    IN CASE r.kind = "error" ->
                [calls |-> <<submit>>, replies |-> <<Reply(TryLater)>>,
                 raised |-> "none"]
         [] ~SubmitAccepted(r.status) ->
                [calls |-> <<submit>>, replies |-> <<Reply(SaveFailed)>>,
                 raised |-> "none"]
         [] bookmark_id = Missing \/ bookmark_id = <<>> ->
                [calls |-> <<submit>>, replies |-> <<Reply(SavedNoId)>>,
                 raised |-> "none"]
         [] details.kind = "error" ->
                [calls |-> <<submit, lookup>>,
                 replies |-> <<Reply(TryLater)>>, raised |-> "none"]
         [] ~DetailsOk(details.status) ->
                [calls |-> <<submit, lookup>>,
                 replies |-> <<Reply(SavedNoDetails)>>, raised |-> "none"]
         [] ~details.json ->
                [calls |-> <<submit, lookup>>, replies |-> <<>>,
                 raised |-> "JSONDecodeError"]
         [] OTHER ->
                [calls |-> <<submit, lookup>>,
                 replies |-> <<SavedMessage(real_title, href, bookmark_id)>>,
                 raised |-> "none"]

SubmitStatuses == { 200, 202, 500 }
DetailsStatuses == { 200, 202, 404 }
Titles == { Missing, <<"F", "o", "o">> }
Hrefs == { Missing, <<"https://x">> }

SubmitAnswers ==
    { HttpError }
      \cup { HttpResponse(st) : st \in SubmitStatuses }
      \cup { [HttpResponse(st) EXCEPT !.bookmark_id = b] :
               st \in { x \in SubmitStatuses : SubmitAccepted(x) },
               b \in BookmarkIds \cup { <<>> } }

DetailsAnswers ==
    { HttpError }
      \cup { HttpResponse(st) : st \in DetailsStatuses }
      \cup { [HttpResponse(st) EXCEPT !.json = TRUE, !.title = t, !.href = h] :
               st \in { x \in DetailsStatuses : DetailsOk(x) },
               t \in Titles, h \in Hrefs }

\* whether save_bookmark gets to the details lookup
HasId(r) ==
    r.kind = "response" /\ SubmitAccepted(r.status)
      /\ r.bookmark_id # Missing /\ r.bookmark_id # <<>>

SaveBackends ==
    { [NoBackend EXCEPT !.submit = r, !.details = d] :
        r \in { x \in SubmitAnswers : HasId(x) }, d \in DetailsAnswers }
      \cup { [NoBackend EXCEPT !.submit = r] :
               r \in { x \in SubmitAnswers : ~HasId(x) } }

\* (mutant: the text is parsed before the token is looked up)
HandleMessage_ParseFirst ==
    /\ pc = "pending" /\ update.command = "message"
    /\ pc' = "handled"
    /\ LET text == Strip(update.text)
           token == DictGet(USER_TOKEN_MAP, Str(update.user_id))
           parsed == ExtractUrlTitleLabels(text)
       IN CASE ~HasScheme(text) ->
                 /\ replies' = <<Reply(UnknownInput)>>
                 /\ UNCHANGED <<backend, calls, raised>>
            [] parsed.url = Missing ->
                 /\ replies' = <<Reply(NoValidUrl)>>
                 /\ UNCHANGED <<backend, calls, raised>>
            [] ~Truthy(token) ->
                 /\ replies' = <<Reply(NoToken)>>
                 /\ UNCHANGED <<backend, calls, raised>>
            [] OTHER ->
                 \E be \in SaveBackends :
                    LET out == SaveBookmark(parsed.url, parsed.title,
                                            parsed.labels, be)
                    IN /\ backend' = be
                       /\ calls' = out.calls
                       /\ replies' = out.replies
                       /\ raised' = out.raised
    /\ UNCHANGED <<tasks, READECK_CONFIG, USER_TOKEN_MAP, file, update>>

\* handle_message: the token is looked up first (lines 132-136), then the
\* text is searched for a scheme and parsed (lines 139-149)
HandleMessage ==
    /\ pc = "pending" /\ update.command = "message"
    /\ pc' = "handled"
    /\ LET text == Strip(update.text)
           token == DictGet(USER_TOKEN_MAP, Str(update.user_id))
           parsed == ExtractUrlTitleLabels(text)
       IN CASE ~Truthy(token) ->
                 /\ replies' = <<Reply(NoToken)>>
                 /\ UNCHANGED <<backend, calls, raised>>
            [] ~HasScheme(text) ->
                 /\ replies' = <<Reply(UnknownInput)>>
                 /\ UNCHANGED <<backend, calls, raised>>
            [] parsed.url = Missing ->
                 /\ replies' = <<Reply(NoValidUrl)>>
                 /\ UNCHANGED <<backend, calls, raised>>
            [] OTHER ->
                 \E be \in SaveBackends :
                    LET out == SaveBookmark(parsed.url, parsed.title,
                                            parsed.labels, be)
                    IN /\ backend' = be
                       /\ calls' = out.calls
                       /\ replies' = out.replies
                       /\ raised' = out.raised
    /\ UNCHANGED <<tasks, READECK_CONFIG, USER_TOKEN_MAP, file, update>>

----------------------------------------------------------------------------
(* dynamic_md_handler, send_long_message and fetch_article_markdown,
   src/bot.py:284-328 *)

UnknownCommand ==
    <<"I don't recognize this command.\nIf you want the markdown of a saved article, use /md_<bookmark_id>.">>
ArticleFailed == <<"Failed to retrieve the article markdown.">>

\* (mutant: the dynamic command reports a missing token in its own words)
MdNoToken_Distinct == <<"No token is stored for this command.">>

\* lines 294-295: the literal of dynamic_md_handler
MdNoToken ==
    <<"I don't have your Readeck token. Set it with /token <YOUR_TOKEN> or /register <password>.">>

\* line 306
limit == 4000

\* (mutant: the slice takes its upper index in)
Slice_Inclusive(s, a, b) == SubSeq(s, a + 1, Min(b + 1, Len(s)))

\* Python's s[a:b] for 0 <= a <= b
Slice(s, a, b) == SubSeq(s, a + 1, Min(b, Len(s)))

\* for start in range(0, len(text), limit): text[start:start+limit]
RECURSIVE Chunks(_, _)
Chunks(text, start) ==
    IF start >= Len(text) THEN <<>>
    ELSE <<Slice(text, start, start + limit)>> \o Chunks(text, start + limit)

\* send_long_message: one reply per chunk
SendLongMessage(text) ==
    LET chunks == Chunks(text, 0)
    IN [i \in 1 .. Len(chunks) |-> Reply(chunks[i])]

\* f"{READECK_BASE_URL}/api/bookmarks/{bookmark_id}/article.md"
ArticlePath(bookmark_id) ==
    <<"/api/bookmarks/">> \o bookmark_id \o <<"/article.md">>

\* line 322
ArticleOk(status) == status = 200

\* fetch_article_markdown
FetchArticleMarkdown(bookmark_id, be) ==
    LET r == be.article
        fetch == HttpCall("GET", ArticlePath(bookmark_id), NoBody, r)
    IN CASE r.kind = "error" ->
                [calls |-> <<fetch>>, replies |-> <<Reply(TryLater)>>]
         [] ArticleOk(r.status) ->
                [calls |-> <<fetch>>, replies |-> SendLongMessage(r.text)]
         [] OTHER ->
                [calls |-> <<fetch>>, replies |-> <<Reply(ArticleFailed)>>]

\* text[len("/md_"):]
MdPrefix == <<"/", "m", "d", "_">>
\* (mutant: the identifier is cut one character late)
MdBookmarkId_OneLate(text) == SubSeq(text, Len(MdPrefix) + 2, Len(text))
MdBookmarkId(text) == Slice(text, Len(MdPrefix), Len(text))

ArticleStatuses == { 200, 202, 404 }

ArticleBackends(articles) ==
    { [NoBackend EXCEPT !.article = r] :
        r \in { HttpError }
                \cup { HttpResponse(st) :
                         st \in { x \in ArticleStatuses : ~ArticleOk(x) } }
                \cup { [HttpResponse(st) EXCEPT !.text = t] :
                         st \in { x \in ArticleStatuses : ArticleOk(x) },
                         t \in articles } }

\* dynamic_md_handler, with the article bodies the backend may answer with
DynamicMdHandler(articles) ==
    /\ pc = "pending" /\ update.command = "other"
    /\ pc' = "handled"
    /\ LET text == Strip(update.text)
           bookmark_id == MdBookmarkId(text)
           token == DictGet(USER_TOKEN_MAP, Str(update.user_id))
       IN CASE ~StartsWith(text, MdPrefix) ->
                 /\ replies' = <<Reply(UnknownCommand)>>
                 /\ UNCHANGED <<backend, calls>>
            [] ~Truthy(token) ->
                 /\ replies' = <<Reply(MdNoToken)>>
                 /\ UNCHANGED <<backend, calls>>
            [] OTHER ->
                 \E be \in ArticleBackends(articles) :
                    LET out == FetchArticleMarkdown(bookmark_id, be)
                    IN /\ backend' = be
                       /\ calls' = out.calls
                       /\ replies' = out.replies
    /\ UNCHANGED <<tasks, READECK_CONFIG, USER_TOKEN_MAP, file, update, raised>>

\* article bodies of one chunk at most
ShortArticles == { <<>>, <<"#">>, <<"#", " ", "a">> }

DynamicMd == DynamicMdHandler(ShortArticles)

\* article bodies around the chunk boundaries, and the 9000 characters of
\* the documented example
ArticleChars == <<"#", "a", "b", " ", "x", "\n", "4">>
ArticleLengths ==
    { n \in { k * limit + d : k \in 0 .. MaxChunks, d \in -1 .. 1 } : n >= 0 }
      \cup { 9000 }
LongArticles ==
    { [i \in 1 .. n |-> ArticleChars[(i % 7) + 1]] : n \in ArticleLengths }

DynamicMdLong == DynamicMdHandler(LongArticles)

ReceiveMd == ReceiveFrom(OtherCommandUpdates)

----------------------------------------------------------------------------

Next ==
    \/ Receive
    \/ Finish
    \/ Restart
    \/ Start
    \/ Help
    \/ TokenCommand
    \/ RegisterCommand
    \/ HandleMessage
    \/ DynamicMd

Spec == Init /\ [][Next]_vars

\* The article flow alone, with long articles: user 1 has set a token.
InitArticle ==
    /\ READECK_CONFIG = None
    /\ USER_TOKEN_MAP = DictSet(EmptyDict, Str(1), "tokA")
    /\ file = JsonDumps(USER_TOKEN_MAP)
    /\ pc = "idle"
    /\ update = NoUpdate
    /\ backend = NoBackend
    /\ calls = <<>>
    /\ replies = <<>>
    /\ raised = "none"
    /\ tasks = NoTasks

NextArticle ==
    \/ ReceiveMd
    \/ DynamicMdLong
    \/ Finish

SpecArticle == InitArticle /\ [][NextArticle]_vars

----------------------------------------------------------------------------
(* The parser on texts of up to MaxWords words, sent by a user who has set
   a token. *)

\* words of a message: a URL, labels of which one begins with the other, a
\* plain word, and a label that follows another without a blank
ParserWords ==
    { <<"http", "://", "x">>, <<"+", "a">>, <<"+", "a", "b">>, <<"a">>,
      <<"+", "b", "+", "b">> }

\* the words with one blank between them
RECURSIVE JoinWords(_)
JoinWords(words) ==
    IF Len(words) = 1 THEN words[1]
    ELSE words[1] \o <<" ">> \o JoinWords(Tail(words))

ParserTexts == { JoinWords(ws) : ws \in SeqsOf(ParserWords, 1, MaxWords) }

ParserUpdates ==
    { [user_id |-> u, command |-> "message", args |-> <<>>, text |-> t] :
        u \in UserIds, t \in ParserTexts }

ReceiveText == ReceiveFrom(ParserUpdates)

NextParser ==
    \/ ReceiveText
    \/ HandleMessage
    \/ Finish

SpecParser == InitArticle /\ [][NextParser]_vars

----------------------------------------------------------------------------
(* Writers on the event loop. The handlers are coroutines on one asyncio
   event loop: a coroutine runs until it awaits, and only then may the loop
   run another. Here the transport hands over an update of every user
   while updates of other users are still being handled, and each update
   is a well-formed /token; token_command is followed statement by
   statement. A registration that got its token runs the same two
   statements (lines 218-219). *)

\* (mutant: the write is awaited, as with an asynchronous file library)
AwaitsAt_InSave(label) == label \in {"awaiting", "dumped"}

\* the positions at which token_command awaits: reply_text, line 183
AwaitsAt(label) == label = "awaiting"

\* task t moves to `label`, keeping or yielding the event loop
Goto(t, label) ==
    [tasks EXCEPT !.pc[t] = label,
                  !.running = IF AwaitsAt(label) THEN 0 ELSE t]

\* task t ends: its coroutine returned, or an exception left it
End(t, how) ==
    [tasks EXCEPT !.pc[t] = "idle", !.running = 0, !.done[t] = how,
                  !.text[t] = FileAbsent]

\* what the handlers of one update at a time work on
HandlerVars == <<READECK_CONFIG, pc, update, backend, calls, replies, raised>>

\* the application creates a task for an update /token <token> of user t
WriterDispatch ==
    \E t \in UserIds, token \in Tokens :
        /\ tasks.pc[t] = "idle"
        /\ tasks' = [tasks EXCEPT !.pc[t] = "l182", !.token[t] = token,
                                  !.done[t] = "none"]
        /\ UNCHANGED <<HandlerVars, USER_TOKEN_MAP, file>>

\* the event loop, executing nothing, runs or resumes a task
WriterRun ==
    \E t \in UserIds :
        /\ tasks.running = 0 /\ tasks.pc[t] # "idle"
        /\ tasks' = [tasks EXCEPT !.running = t]
        /\ UNCHANGED <<HandlerVars, USER_TOKEN_MAP, file>>

\* line 60: super().__setitem__(key, value)
WriterSetItem ==
    \E t \in UserIds :
        /\ tasks.running = t /\ tasks.pc[t] = "l182"
        /\ USER_TOKEN_MAP' = SetItemMap(USER_TOKEN_MAP, Str(t), tasks.token[t])
        /\ tasks' = Goto(t, "l61")
        /\ UNCHANGED <<HandlerVars, file>>

\* line 68: json.dumps(self, indent=2)
WriterDumps ==
    \E t \in UserIds :
        /\ tasks.running = t /\ tasks.pc[t] = "l61"
        /\ tasks' = [Goto(t, "dumped") EXCEPT
                        !.text[t] = JsonDumps(USER_TOKEN_MAP)]
        /\ UNCHANGED <<HandlerVars, USER_TOKEN_MAP, file>>

\* line 68, write_text: open(mode="w") empties the file, which is then no
\* JSON document, or fails
WriterOpen ==
    \E t \in UserIds, disk \in {"ok", "open_failed"} :
        /\ tasks.running = t /\ tasks.pc[t] = "dumped"
        /\ file' = IF disk = "ok" THEN FileGarbage ELSE file
        /\ tasks' = IF disk = "ok" THEN Goto(t, "opened") ELSE End(t, "failed")
        /\ UNCHANGED <<HandlerVars, USER_TOKEN_MAP>>

\* line 68, write_text: the text is written and the file closed, or the
\* write fails
WriterWrite ==
    \E t \in UserIds, disk \in {"ok", "write_failed"} :
        /\ tasks.running = t /\ tasks.pc[t] = "opened"
        /\ file' = IF disk = "ok" THEN tasks.text[t] ELSE file
        /\ tasks' = IF disk = "ok" THEN Goto(t, "l183") ELSE End(t, "failed")
        /\ UNCHANGED <<HandlerVars, USER_TOKEN_MAP>>

\* line 183: await update.message.reply_text(...)
WriterReply ==
    \E t \in UserIds :
        /\ tasks.running = t /\ tasks.pc[t] = "l183"
        /\ tasks' = Goto(t, "awaiting")
        /\ UNCHANGED <<HandlerVars, USER_TOKEN_MAP, file>>

\* line 184: the reply was sent; the coroutine logs and returns
WriterReturn ==
    \E t \in UserIds :
        /\ tasks.running = t /\ tasks.pc[t] = "awaiting"
        /\ tasks' = End(t, "ok")
        /\ UNCHANGED <<HandlerVars, USER_TOKEN_MAP, file>>

NextWriters ==
    \/ WriterDispatch
    \/ WriterRun
    \/ WriterSetItem
    \/ WriterDumps
    \/ WriterOpen
    \/ WriterWrite
    \/ WriterReply
    \/ WriterReturn

SpecWriters == Init /\ [][NextWriters]_vars

----------------------------------------------------------------------------
(* Properties *)

\* the handler for `command` has just run
Handled(command) == pc = "handled" /\ update.command = command

\* the step in which the handler for `command` runs
Handling(command) ==
    pc = "pending" /\ pc' = "handled" /\ update.command = command

\* the key of the user who sent the update
Requester == Str(update.user_id)

\* indices of the calls to `path`
CallsTo(path) == { i \in 1 .. Len(calls) : calls[i].target = path }

\* a JSON answer with a 2xx status
Is2xx(r) == r.kind = "response" /\ r.status \in 200 .. 299

\* C1: after a set(u, c) that completed (the /token handler or a
\* registration stored c for u and returned without raising), get(u)
\* returns c in this process, and in a process that starts now and loads the
\* file.
C1_ReadAfterWrite ==
    /\ (Handled("token") /\ Len(update.args) = 1 /\ raised = "none") =>
          /\ DictGet(USER_TOKEN_MAP, Requester) = update.args[1]
          /\ DictGet(Load(file), Requester) = update.args[1]
    /\ (Handled("register")
          /\ replies = <<Reply(RegistrationSuccessful)>>) =>
          /\ DictGet(USER_TOKEN_MAP, Requester) = backend.auth.token
          /\ DictGet(Load(file), Requester) = backend.auth.token

\* a /token that overwrites the user's earlier token while another user
\* holds a different one
C1_Witness ==
    /\ Handled("token") /\ Len(update.args) = 1 /\ raised = "none"
    /\ update.args[1] = "tokB"
    /\ \E k \in DOMAIN USER_TOKEN_MAP :
          k # Requester /\ USER_TOKEN_MAP[k] = "tokA"
    /\ Load(file) = USER_TOKEN_MAP

\* the local run did not end with exit status 0
LocalFailed == calls # <<>> /\ calls[1].result.kind # "exit0"

\* C2: when local provisioning fails and container provisioning fails too,
\* the only reply is "Registration failed: " followed by the container's
\* stderr, no request goes to /api/auth and the store is unchanged.
C2_BothFail ==
    [][ (Handling("register") /\ LocalFailed'
           /\ backend'.docker \in {"exit1", "missing"}) =>
          /\ replies' = <<Reply(RegistrationFailed \o Strip(DockerStderr))>>
          /\ CallsTo(AuthPath)' = {}
          /\ USER_TOKEN_MAP' = USER_TOKEN_MAP
          /\ file' = file ]_vars

\* C3: whenever local provisioning fails, in whatever way, and container
\* provisioning succeeds, exactly one request goes to /api/auth.
C3_FallbackAuthOnce ==
    (Handled("register") /\ LocalFailed /\ backend.docker = "exit0") =>
        Cardinality(CallsTo(AuthPath)) = 1

\* the token exchange answered 2xx with a JSON body holding a token
AuthGaveToken ==
    /\ CallsTo(AuthPath) # {}
    /\ Is2xx(backend.auth) /\ backend.auth.json
    /\ backend.auth.token \notin {None, ""}

\* C4: a registration whose token exchange answers 2xx with a non-empty
\* token stores that token under the requester's user id and changes no
\* other entry, whatever the username.
C4_TokenUnderRequester ==
    [][ (Handling("register") /\ AuthGaveToken') =>
          USER_TOKEN_MAP' =
            [k \in DOMAIN USER_TOKEN_MAP \cup {Requester} |->
               IF k = Requester THEN backend'.auth.token
               ELSE USER_TOKEN_MAP[k]] ]_vars

\* user 2 registered under the username "1", which keeps its own entry
C4_Witness ==
    /\ Handled("register") /\ AuthGaveToken
    /\ update.user_id = 2 /\ update.args = <<Str(1), "pw">>
    /\ replies = <<Reply(RegistrationSuccessful)>>
    /\ USER_TOKEN_MAP[Str(2)] = "tokB"
    /\ DictGet(USER_TOKEN_MAP, Str(1)) = "tokA"

\* the token exchange answered 2xx with a JSON body without a token, or
\* with an empty one
AuthGaveNoToken ==
    /\ CallsTo(AuthPath) # {}
    /\ Is2xx(backend.auth) /\ backend.auth.json
    /\ backend.auth.token \in {None, ""}

\* the token exchange answered with a status outside 2xx
AuthRefused ==
    /\ CallsTo(AuthPath) # {}
    /\ backend.auth.kind = "response" /\ ~Is2xx(backend.auth)

CarriesCredentials(username, password) ==
    \A i \in 1 .. Len(calls) :
        /\ calls[i].target[1] = "docker" =>
              SubSeq(calls[i].target, 6, 9) = <<"-u", username, "-p", password>>
        /\ calls[i].target = AuthPath =>
              /\ calls[i].body.username = username
              /\ calls[i].body.password = password

\* C6: /register with no argument uses the user id as username and
\* password, with one argument the user id and the argument, with two the
\* arguments; with more it replies with the usage and calls nothing, and
\* the store is unchanged.
C6_RegisterArguments ==
    [][ Handling("register") =>
          CASE Len(update.args) = 0 ->
                  calls' # <<>>
                    /\ CarriesCredentials(Requester, Requester)'
            [] Len(update.args) = 1 ->
                  calls' # <<>>
                    /\ CarriesCredentials(Requester, update.args[1])'
            [] Len(update.args) = 2 ->
                  calls' # <<>>
                    /\ CarriesCredentials(update.args[1], update.args[2])'
            [] OTHER ->
                  /\ replies' = <<Reply(RegisterUsage)>>
                  /\ calls' = <<>>
                  /\ USER_TOKEN_MAP' = USER_TOKEN_MAP
                  /\ file' = file ]_vars

\* one argument, the container fallback and the token exchange both made
C6_Witness ==
    /\ Handled("register") /\ update.args = <<"pw">> /\ update.user_id = 2
    /\ Len(calls) = 3
    /\ calls[3].body.username = "2" /\ calls[3].body.password = "pw"

\* the submit and the lookups among the calls of a save
Submits == { i \in 1 .. Len(calls) : calls[i].target = BookmarksPath }
Lookups ==
    { i \in 1 .. Len(calls) :
        calls[i].op = "GET" /\ calls[i].target[1] = "/api/bookmarks/" }

\* the submit was answered with a Bookmark-Id header
GaveId(r) == r.bookmark_id # Missing /\ r.bookmark_id # <<>>

\* C7: a save submits once; it looks the details up only after a 202 that
\* carries a Bookmark-Id, and then for that id; a 202 without the header is
\* reported as a missing identifier and a status other than 202 as a failed
\* save, both without a lookup.
C7_LookupOnlyAfterAccepted ==
    Handled("message") =>
        /\ Cardinality(Submits) <= 1
        /\ \A i \in Lookups :
              /\ i = 2 /\ Submits = {1}
              /\ calls[1].result.kind = "response"
              /\ calls[1].result.status = 202
              /\ GaveId(calls[1].result)
              /\ calls[i].target =
                    <<"/api/bookmarks/">> \o calls[1].result.bookmark_id
        /\ (Submits # {} /\ calls[1].result.kind = "response"
              /\ calls[1].result.status = 202 /\ ~GaveId(calls[1].result)) =>
              replies = <<Reply(SavedNoId)>> /\ Lookups = {}
        /\ (Submits # {} /\ calls[1].result.kind = "response"
              /\ calls[1].result.status # 202) =>
              replies = <<Reply(SaveFailed)>> /\ Lookups = {}

\* a 202 without the header
C7_Witness ==
    /\ Handled("message") /\ Len(calls) = 1
    /\ calls[1].result.kind = "response" /\ calls[1].result.status = 202
    /\ ~GaveId(calls[1].result)
    /\ replies = <<Reply(SavedNoId)>>

\* md_<BookmarkId>
MdToken(b) == <<"m", "d", "_">> \o b

\* C8: when the submit gave an id but the details lookup is answered with
\* a status other than 200, the reply carries the follow-up command
\* md_<BookmarkId>.
C8_DetailsUnavailable ==
    (Handled("message") /\ Len(calls) = 2
       /\ calls[2].result.kind = "response"
       /\ calls[2].result.status # 200) =>
        \E i \in 1 .. Len(replies) :
            Contains(replies[i].text, MdToken(calls[1].result.bookmark_id))

\* C9: the confirmation of a save holds the display title and /md_<b> with
\* the Bookmark-Id b as the header gave it; and /md_<b>, sent by a user with
\* a stored token, makes one request, for the article of exactly b.
C9_FollowUpRoundTrip ==
    /\ (Handled("message") /\ Len(calls) = 2
          /\ calls[2].result.kind = "response"
          /\ calls[2].result.status = 200 /\ calls[2].result.json) =>
          /\ Len(replies) = 1
          /\ Contains(replies[1].text,
                      <<"/">> \o MdToken(calls[1].result.bookmark_id))
          /\ Contains(replies[1].text,
                      IF calls[2].result.title = Missing
                      THEN <<"No Title">> ELSE calls[2].result.title)
    /\ \A b \in BookmarkIds :
          (Handled("other") /\ update.text = <<"/">> \o MdToken(b)
             /\ Requester \in DOMAIN USER_TOKEN_MAP) =>
             /\ Len(calls) = 1
             /\ calls[1].op = "GET"
             /\ calls[1].target = <<"/api/bookmarks/">> \o b
                                    \o <<"/article.md">>

\* /md_42 is sent back and the article of 42 is requested and delivered
C9_Witness ==
    /\ Handled("other") /\ update.text = <<"/", "m", "d", "_", "4", "2">>
    /\ Len(calls) = 1
    /\ calls[1].target = <<"/api/bookmarks/", "4", "2", "/article.md">>
    /\ calls[1].result.status = 200 /\ Len(replies) = 1

RECURSIVE Concat(_)
Concat(texts) ==
    IF texts = <<>> THEN <<>> ELSE Head(texts) \o Concat(Tail(texts))

\* C10: an article of n characters answered with status 200 is sent as
\* ceil(n / limit) replies, each of 1 to limit characters, whose texts put
\* end to end in the order sent are the article.
C10_Chunks ==
    (Handled("other") /\ calls # <<>> /\ calls[1].result.kind = "response"
       /\ calls[1].result.status = 200) =>
        LET text == calls[1].result.text
        IN /\ Len(replies) = (Len(text) + limit - 1) \div limit
           /\ \A i \in 1 .. Len(replies) :
                 Len(replies[i].text) \in 1 .. limit
           /\ Concat([i \in 1 .. Len(replies) |-> replies[i].text]) = text

\* the 9000 characters of the documented example go out in three replies
C10_Witness ==
    /\ Handled("other") /\ calls # <<>>
    /\ calls[1].result.status = 200 /\ Len(calls[1].result.text) = 9000
    /\ Len(replies) = 3 /\ Len(replies[3].text) = 1000

\* the user who sent the update has no stored token
NoCredential == ~Truthy(DictGet(USER_TOKEN_MAP, Requester))

\* the text of the update holds a URL
HasUrl == SearchUrl(Strip(update.text)) # Missing

\* C11: /md_<id> from a user without a stored token is answered with the
\* very text a free-text URL message from such a user is answered with,
\* and neither makes a call.
C11_SameNoCredential ==
    /\ (Handled("other") /\ StartsWith(Strip(update.text), MdPrefix)
          /\ NoCredential) =>
          replies = <<Reply(NoToken)>> /\ calls = <<>>
    /\ (Handled("message") /\ HasUrl /\ NoCredential) =>
          replies = <<Reply(NoToken)>> /\ calls = <<>>

\* /md_42 from user 1, who has no token, while user 2 has one
C11_Witness ==
    /\ Handled("other") /\ update.text = <<"/", "m", "d", "_", "4", "2">>
    /\ update.user_id = 1 /\ NoCredential
    /\ DictGet(USER_TOKEN_MAP, Str(2)) = "tokA"
    /\ replies = <<Reply(NoToken)>> /\ calls = <<>>

\* the replies that tell the user no URL was found
NoUrlReplies == { <<Reply(UnknownInput)>>, <<Reply(NoValidUrl)>> }

EndedInFailure ==
    /\ calls # <<>>
    /\ calls[Len(calls)].result.kind \in {"missing", "exit1", "error"}

\* no call was made twice
NoRetry ==
    \A i, j \in 1 .. Len(calls) : calls[i].target = calls[j].target => i = j

\* C13: a flow that ends in a failure of the outside world replies with
\* one message, lets no exception escape the handler and repeats no call.
C13_FailuresCaught ==
    (pc = "handled" /\ EndedInFailure) =>
        /\ raised = "none"
        /\ Len(replies) = 1
        /\ NoRetry

\* task t is inside the persist step: write_text has its text and has not
\* closed the file
InPersist(t) == tasks.pc[t] \in {"dumped", "opened"}

\* no update is being handled and no write has failed
AllWritten ==
    /\ \A t \in UserIds : tasks.pc[t] = "idle" /\ tasks.done[t] # "failed"
    /\ \E t \in UserIds : tasks.done[t] = "ok"

\* C14: however the handling of updates that write tokens for different
\* users interleaves, the persist steps of two writers never overlap, and
\* once every write has completed the file holds, for every writer, the
\* token that writer wrote, and loads to the table in memory.
C14_SerializedWrites ==
    /\ Cardinality({ t \in UserIds : InPersist(t) }) <= 1
    /\ AllWritten =>
          /\ \A t \in UserIds :
                tasks.done[t] = "ok" =>
                    DictGet(Load(file), Str(t)) = tasks.token[t]
          /\ Load(file) = USER_TOKEN_MAP

\* the updates of users 1 and 2 are in flight together: both coroutines
\* have written and wait for their reply to be sent, and the file holds
\* both tokens
C14_Witness ==
    /\ tasks.pc[1] = "awaiting" /\ tasks.pc[2] = "awaiting"
    /\ tasks.running = 0
    /\ DictGet(Load(file), Str(1)) = "tokA"
    /\ DictGet(Load(file), Str(2)) = "tokB"

\* the persist step of this update failed
PersistFailed == backend.disk \in {"open_failed", "write_failed"}

\* the user was told that the write went well
ToldSaved ==
    \E i \in 1 .. Len(replies) :
        replies[i] \in {Reply(TokenSaved), Reply(RegistrationSuccessful)}

\* get(u) returns a credential that the file does not hold
Unpersisted ==
    \E k \in DOMAIN USER_TOKEN_MAP :
        DictGet(Load(file), k) # USER_TOKEN_MAP[k]

\* C15: when the persist step of a /token or of a registration fails, the
\* handler ends with the exception and sends no message, so neither "token
\* saved" nor "registration successful"; and the user is never told that a
\* write went well while the table in memory holds a credential that the
\* file does not hold.
C15_StorageError ==
    /\ ((Handled("token") \/ Handled("register")) /\ PersistFailed) =>
          raised = "OSError" /\ replies = <<>>
    /\ Unpersisted => ~ToldSaved

\* the write of a registration fails midway: the token is in memory, the
\* file is left unparseable, nothing is sent
C15_Witness ==
    /\ Handled("register") /\ backend.disk = "write_failed"
    /\ AuthGaveToken /\ raised = "OSError" /\ replies = <<>>
    /\ USER_TOKEN_MAP[Requester] = backend.auth.token
    /\ Unpersisted /\ file = FileGarbage

\* C16: a start of the process that finds a file that is not a JSON
\* object (absent, unparseable, or another JSON value) goes on with an
\* empty table, none of the file's entries in it, and takes updates.
C16_LoadCorrupt ==
    /\ (file.kind # "object" =>
          USER_TOKEN_MAP = EmptyDict /\ pc = "idle" /\ raised = "none")
    /\ [][ (Restart /\ file.kind # "object") =>
              /\ USER_TOKEN_MAP' = EmptyDict
              /\ pc' = "idle" /\ raised' = "none" ]_vars

\* the process was started again after a write that failed midway: the
\* file is empty, and so is the table
C16_Witness ==
    /\ pc = "idle" /\ file = FileGarbage
    /\ USER_TOKEN_MAP = EmptyDict

\* the credentials a /register update stands for
Registering == RegisterArgs(update.user_id, update.args)

\* C17: the local provisioning command is readeck user -u <username> -p
\* <password>, with -config <path> right after "user" when a configuration
\* path is set.
C17_LocalCommand ==
    (Handled("register") /\ calls # <<>>) =>
        calls[1].target =
            <<"readeck", "user">>
              \o (IF READECK_CONFIG # None
                  THEN <<"-config", READECK_CONFIG>> ELSE <<>>)
              \o <<"-u", Registering.username, "-p", Registering.password>>

\* a handler runs in this step
HandlingAny == pc = "pending" /\ pc' = "handled"

\* the update is a /token with one argument
WellFormedToken == update.command = "token" /\ Len(update.args) = 1

\* C18: the table changes only in the handling of a well-formed /token or
\* of a /register that is answered with "registration successful", and
\* then only in the requester's entry; every other update, a failed
\* registration among them, leaves it as it was; and no update removes an
\* entry, from the table in memory or from the persisted one.
C18_StoreFrame ==
    [][ HandlingAny =>
          /\ ~(WellFormedToken
                 \/ (update.command = "register"
                       /\ replies' = <<Reply(RegistrationSuccessful)>>)) =>
                USER_TOKEN_MAP' = USER_TOKEN_MAP
          /\ \A k \in DOMAIN USER_TOKEN_MAP :
                k # Requester => DictGet(USER_TOKEN_MAP', k) = USER_TOKEN_MAP[k]
          /\ DOMAIN USER_TOKEN_MAP \subseteq DOMAIN USER_TOKEN_MAP'
          /\ DOMAIN Load(file) \subseteq DOMAIN Load(file') ]_vars

\* s without the first occurrence of old
RECURSIVE RemoveFirst(_, _)
RemoveFirst(s, old) ==
    CASE s = <<>> -> <<>>
      [] StartsWith(s, old) -> SubSeq(s, Len(old) + 1, Len(s))
      [] OTHER -> <<Head(s)>> \o RemoveFirst(Tail(s), old)

\* s from index i on, without its +word tokens
RECURSIVE WithoutTags(_, _)
WithoutTags(s, i) ==
    CASE i > Len(s) -> <<>>
      [] s[i] = "+" /\ i < Len(s) /\ s[i + 1] \in WordChars ->
            WithoutTags(s, WordEnd(s, i + 1) + 1)
      [] OTHER -> <<s[i]>> \o WithoutTags(s, i + 1)

\* the text of the update without the first occurrence of its first URL
Remainder ==
    RemoveFirst(Strip(update.text), SearchUrl(Strip(update.text)))

\* C19: for a text with a URL, the tags submitted are the +word tokens of
\* the remainder (the text without the first occurrence of the URL), in
\* order and with repetitions, and the title submitted is the remainder
\* without those tokens, trimmed, or none when nothing is left.
C19_ParseTagsTitle ==
    (Handled("message") /\ calls # <<>>) =>
        /\ calls[1].body.labels = FindLabels(Remainder, 1)
        /\ calls[1].body.title =
              IF Strip(WithoutTags(Remainder, 1)) # <<>>
              THEN Strip(WithoutTags(Remainder, 1)) ELSE Missing

\* C20: whatever the update and however the outside world answers, the
\* handler has sent at least one message when it ends.
C20_AlwaysReplies == pc = "handled" => Len(replies) >= 1

====
